---- MODULE Spec2Model ----
(***************************************************************************)
(* Model of the Kruskal maze generator of src/src/main.rs: Maze::new,      *)
(* Maze::generate (one step per iteration of its loop), Maze::add_map,     *)
(* print_maze / save_to_file and the UnionFind structure.                  *)
(***************************************************************************)
EXTENDS Integers, Naturals, Sequences, FiniteSets, TLC

VARIABLES maze,       \* the Maze value of main(): width, height, walls, stickiness, open_walls
          sets,       \* generate()'s local UnionFind: its parent vector
          wall_list,  \* generate()'s shuffled wall list: the walls not yet visited by the loop
          pc,         \* position of main()
          mapped,     \* add_map() has been called
          warned,     \* add_map() has written its warning to stderr
          out,        \* the rows written by print_maze / save_to_file
          maze2,      \* second run of generate() on the same shuffle order: its Maze
          sets2,      \* second run: its UnionFind
          uf,         \* a free-standing UnionFind (parent vector)
          linked,     \* the union(a, b) calls with a # b made on uf so far, smaller node first
          found       \* the node of the last find() call made on uf, in a sequence of length 1

vars == <<maze, sets, wall_list, pc, mapped, warned, out, maze2, sets2, uf, linked, found>>

\* Largest number of interior cells (width * height) of a modelled maze.
MaxCells == 5

\* Largest number of interior cells of a maze whose generate() is checked for
\* termination.
MaxFairCells == 4

\* Largest size of the free-standing UnionFind.
MaxSize == 4

\* Largest number of different pairs {a, b}, a # b, handed to union() on it.
MaxUnions == 3

\* rng.gen_range(1..=9)
MinWeight == 1
MaxWeight == 9

\* b'S' and b'G'
StartMarker == 83
GoalMarker == 71

\* The seeds of the modelled random source.
RngSeeds == {0, 1}

\* width and height as parsed by main()
Dims == {d \in (0..MaxCells) \X (0..MaxCells) : d[1] * d[2] <= MaxCells}

Interior(width, height) == {c \in (1..width) \X (1..height) : TRUE}

NoValue == <<>>

----------------------------------------------------------------------------
(* UnionFind *)

UnionFindNew(size) == [i \in 0..(size - 1) |-> i]

\* find() that follows one parent pointer only
Find_OneStep(parent, node) == parent[node]

RECURSIVE Find(_, _)
Find(parent, node) ==
    IF node # parent[node] THEN Find(parent, parent[node]) ELSE node

\* union() that links the arguments themselves, not their roots
Union_Direct(parent, a, b) ==
    IF Find(parent, a) # Find(parent, b) THEN [parent EXCEPT ![a] = b] ELSE parent

\* union() that also points the second root at the first
Union_BothWays(parent, a, b) ==
    LET root_a == Find(parent, a)
        root_b == Find(parent, b)
    IN  IF root_a # root_b THEN [parent EXCEPT ![root_a] = root_b, ![root_b] = root_a] ELSE parent

Union(parent, a, b) ==
    LET root_a == Find(parent, a)
        root_b == Find(parent, b)
    IN  IF root_a # root_b THEN [parent EXCEPT ![root_a] = root_b] ELSE parent

----------------------------------------------------------------------------
(* Maze *)

\* The outcomes of the rng.gen_range(1..=9) draws of Maze::new, one per grid
\* position (only those of interior cells are used).  Each seed gives one
\* grid of draws in MinWeight..MaxWeight: seed 0 draws MinWeight everywhere,
\* seed 1 draws weights that differ from cell to neighbouring cell and reach
\* MaxWeight.
RngOutcomes(width, height) ==
    {[y \in 0..(height + 1) |-> [x \in 0..(width + 1) |->
         MinWeight + ((seed * (x + 3 * y)) % (MaxWeight - MinWeight + 1))]] : seed \in RngSeeds}

\* Maze::new that inserts no wall into the far border
MazeNew_NoFarWalls(width, height, draw) ==
    LET inner == {c \in (0..(width + 1)) \X (0..(height + 1)) :
                     ~(c[1] = 0 \/ c[2] = 0 \/ c[1] = width + 1 \/ c[2] = height + 1)}
    IN  [width      |-> width,
         height     |-> height,
         walls      |-> {<<c, <<c[1] + 1, c[2]>>>> : c \in {d \in inner : d[1] < width}}
                        \cup {<<c, <<c[1], c[2] + 1>>>> : c \in {d \in inner : d[2] < height}},
         stickiness |-> [y \in 0..(height + 1) |-> [x \in 0..(width + 1) |->
                            IF x = 0 \/ y = 0 \/ x = width + 1 \/ y = height + 1
                            THEN 0 ELSE draw[y][x]]],
         open_walls |-> {}]

\* Maze::new whose border test forgets the far border
MazeNew_NearBorderOnly(width, height, draw) ==
    LET inner == {c \in (0..(width + 1)) \X (0..(height + 1)) : ~(c[1] = 0 \/ c[2] = 0)}
    IN  [width      |-> width,
         height     |-> height,
         walls      |-> {<<c, <<c[1] + 1, c[2]>>>> : c \in {d \in inner : d[1] < width + 1}}
                        \cup {<<c, <<c[1], c[2] + 1>>>> : c \in {d \in inner : d[2] < height + 1}},
         stickiness |-> [y \in 0..(height + 1) |-> [x \in 0..(width + 1) |->
                            IF x = 0 \/ y = 0 THEN 0 ELSE draw[y][x]]],
         open_walls |-> {}]

MazeNew(width, height, draw) ==
    LET inner == {c \in (0..(width + 1)) \X (0..(height + 1)) :
                     ~(c[1] = 0 \/ c[2] = 0 \/ c[1] = width + 1 \/ c[2] = height + 1)}
    IN  [width      |-> width,
         height     |-> height,
         walls      |-> {<<c, <<c[1] + 1, c[2]>>>> : c \in {d \in inner : d[1] < width + 1}}
                        \cup {<<c, <<c[1], c[2] + 1>>>> : c \in {d \in inner : d[2] < height + 1}},
         stickiness |-> [y \in 0..(height + 1) |-> [x \in 0..(width + 1) |->
                            IF x = 0 \/ y = 0 \/ x = width + 1 \/ y = height + 1
                            THEN 0 ELSE draw[y][x]]],
         open_walls |-> {}]

\* cell_to_id() that takes the cell's grid value for its id
CellToId_Sticky(self, cell) == self.stickiness[cell[2]][cell[1]]

CellToId(self, cell) == cell[1] + cell[2] * (self.width + 2)

\* the test without its far-border half
IsOuterWall_NearOnly(self, wall) ==
    wall[1][1] = 0 \/ wall[1][2] = 0

\* the test with the far border taken one cell too early
IsOuterWall_OffByOne(self, wall) ==
    wall[1][1] = 0 \/ wall[1][2] = 0 \/ wall[2][1] = self.width \/ wall[2][2] = self.height

\* the test of the "continue" of the generate() loop
IsOuterWall(self, wall) ==
    LET cell1 == wall[1]
        cell2 == wall[2]
    IN  cell1[1] = 0 \/ cell1[2] = 0 \/ cell2[1] = self.width + 1 \/ cell2[2] = self.height + 1

\* an iteration that opens every wall it does not skip
GenerateIter_NoSetCheck(self, parent, wall) ==
    IF IsOuterWall(self, wall)
    THEN [maze |-> self, sets |-> parent]
    ELSE [maze |-> [self EXCEPT !.open_walls = @ \cup {wall}],
          sets |-> Union(parent, Find(parent, CellToId(self, wall[1])),
                                 Find(parent, CellToId(self, wall[2])))]

\* an iteration that opens the wall and leaves the sets alone
GenerateIter_NoUnion(self, parent, wall) ==
    IF IsOuterWall(self, wall)
    THEN [maze |-> self, sets |-> parent]
    ELSE IF Find(parent, CellToId(self, wall[1])) # Find(parent, CellToId(self, wall[2]))
         THEN [maze |-> [self EXCEPT !.open_walls = @ \cup {wall}], sets |-> parent]
         ELSE [maze |-> self, sets |-> parent]

\* One iteration of the loop of generate(): the Maze and the UnionFind after it.
GenerateIter(self, parent, wall) ==
    IF IsOuterWall(self, wall)
    THEN [maze |-> self, sets |-> parent]
    ELSE LET set1 == Find(parent, CellToId(self, wall[1]))
             set2 == Find(parent, CellToId(self, wall[2]))
         IN  IF set1 # set2
             THEN [maze |-> [self EXCEPT !.open_walls = @ \cup {wall}],
                   sets |-> Union(parent, set1, set2)]
             ELSE [maze |-> self, sets |-> parent]

\* non_wall_cells of add_map() before the shuffle: the interior cells, row by
\* row, whose stickiness is not 0
NonWallCells(self) ==
    LET all == [i \in 1..(self.width * self.height) |->
                   <<((i - 1) % self.width) + 1, ((i - 1) \div self.width) + 1>>]
        NotWall(c) == self.stickiness[c[2]][c[1]] # 0
    IN  SelectSeq(all, NotWall)

\* the outcomes of Vec::shuffle
Shuffles(s) == {[i \in 1..Len(s) |-> s[p[i]]] : p \in Permutations(1..Len(s))}

\* Vec::pop: the last element is removed
PopRest(s) == SubSeq(s, 1, Len(s) - 1)

\* add_map() whose second pop sees the list as it was before the first
AddMapPlace_NoPop(self, shuffled) ==
    LET start  == shuffled[Len(shuffled)]
        stick1 == IF Len(shuffled) >= 1
                  THEN [self.stickiness EXCEPT ![start[2]][start[1]] = StartMarker]
                  ELSE self.stickiness
        stick2 == IF Len(shuffled) >= 1
                  THEN [stick1 EXCEPT ![start[2]][start[1]] = GoalMarker]
                  ELSE stick1
    IN  [maze   |-> [self EXCEPT !.stickiness = stick2],
         warned |-> Len(shuffled) - 2 < 2]

\* add_map() that warns only when it found no cell at all
AddMapPlace_WarnEmptyOnly(self, shuffled) ==
    LET start  == shuffled[Len(shuffled)]
        cells1 == IF Len(shuffled) >= 1 THEN PopRest(shuffled) ELSE shuffled
        stick1 == IF Len(shuffled) >= 1
                  THEN [self.stickiness EXCEPT ![start[2]][start[1]] = StartMarker]
                  ELSE self.stickiness
        goal   == cells1[Len(cells1)]
        stick2 == IF Len(cells1) >= 1
                  THEN [stick1 EXCEPT ![goal[2]][goal[1]] = GoalMarker]
                  ELSE stick1
    IN  [maze   |-> [self EXCEPT !.stickiness = stick2],
         warned |-> Len(shuffled) < 1]

\* add_map() after the shuffle gave non_wall_cells the order "shuffled":
\* the Maze after it and whether the warning was written
AddMapPlace(self, shuffled) ==
    LET start  == shuffled[Len(shuffled)]
        cells1 == IF Len(shuffled) >= 1 THEN PopRest(shuffled) ELSE shuffled
        stick1 == IF Len(shuffled) >= 1
                  THEN [self.stickiness EXCEPT ![start[2]][start[1]] = StartMarker]
                  ELSE self.stickiness
        goal   == cells1[Len(cells1)]
        cells2 == IF Len(cells1) >= 1 THEN PopRest(cells1) ELSE cells1
        stick2 == IF Len(cells1) >= 1
                  THEN [stick1 EXCEPT ![goal[2]][goal[1]] = GoalMarker]
                  ELSE stick1
    IN  [maze   |-> [self EXCEPT !.stickiness = stick2],
         warned |-> Len(cells2) < 2]

----------------------------------------------------------------------------
(* print_maze and save_to_file *)

WallChar == "X"
NoChar == "None"

\* char::from_digit(num, radix): None when num is not a digit of the radix
FromDigit(num, radix) ==
    IF num < radix
    THEN <<"0", "1", "2", "3", "4", "5", "6", "7", "8", "9">>[num + 1]
    ELSE NoChar

\* "as char" of a u8 that is b'S' or b'G'
AsChar(byte) == IF byte = StartMarker THEN "S" ELSE IF byte = GoalMarker THEN "G" ELSE "?"

\* the character written for the position (x, y); NoChar where unwrap() panics
RenderCell(self, x, y) ==
    IF self.stickiness[y][x] = 0
       \/ (/\ <<<<x, y>>, <<x + 1, y>>>> \notin self.open_walls
           /\ <<<<x, y>>, <<x, y + 1>>>> \notin self.open_walls)
    THEN WallChar
    ELSE IF self.stickiness[y][x] = StartMarker \/ self.stickiness[y][x] = GoalMarker
         THEN AsChar(self.stickiness[y][x])
         ELSE FromDigit(self.stickiness[y][x], 10)

\* a rendering that stops one row early
Render_OneRowShort(self) ==
    [r \in 1..(self.height + 1) |-> [c \in 1..(self.width + 2) |-> RenderCell(self, c - 1, r - 1)]]

\* the rows written, first row first, each row from x = 0 on
Render(self) ==
    [r \in 1..(self.height + 2) |-> [c \in 1..(self.width + 2) |-> RenderCell(self, c - 1, r - 1)]]

Panics(rows) == \E r \in 1..Len(rows) : \E c \in 1..Len(rows[r]) : rows[r][c] = NoChar

----------------------------------------------------------------------------
(* main(): Maze::new, then generate() *)

Init ==
    /\ \E d \in Dims : \E draw \in RngOutcomes(d[1], d[2]) : maze = MazeNew(d[1], d[2], draw)
    /\ sets = NoValue
    /\ wall_list = {}
    /\ pc = "new"
    /\ mapped = FALSE
    /\ warned = FALSE
    /\ out = NoValue
    /\ maze2 = NoValue
    /\ sets2 = NoValue
    /\ uf = NoValue
    /\ linked = {}
    /\ found = NoValue

\* generate(), up to the loop.  wall_list.shuffle() fixes an arbitrary order of
\* the walls; the model keeps the set of walls still to visit and lets each
\* iteration take any of them, which yields every order.
GenerateBegin ==
    /\ pc = "new"
    /\ sets' = UnionFindNew((maze.width + 2) * (maze.height + 2))
    /\ wall_list' = maze.walls
    /\ pc' = "loop"
    /\ UNCHANGED <<maze, mapped, warned, out, maze2, sets2, uf, linked, found>>

GenerateStep ==
    /\ pc = "loop"
    /\ \E wall \in wall_list :
          LET r == GenerateIter(maze, sets, wall)
          IN  /\ maze' = r.maze
              /\ sets' = r.sets
              /\ wall_list' = wall_list \ {wall}
    /\ UNCHANGED <<pc, mapped, warned, out, maze2, sets2, uf, linked, found>>

\* the loop is exhausted: generate() returns and its locals are dropped
GenerateEnd ==
    /\ pc = "loop"
    /\ wall_list = {}
    /\ sets' = NoValue
    /\ pc' = "generated"
    /\ UNCHANGED <<maze, wall_list, mapped, warned, out, maze2, sets2, uf, linked, found>>

\* main() was given --map
AddMap ==
    /\ pc = "generated"
    /\ \E shuffled \in Shuffles(NonWallCells(maze)) :
          LET r == AddMapPlace(maze, shuffled)
          IN  /\ maze' = r.maze
              /\ warned' = r.warned
    /\ mapped' = TRUE
    /\ pc' = "mapped"
    /\ UNCHANGED <<sets, wall_list, out, maze2, sets2, uf, linked, found>>

\* main() was given no --output
PrintMaze ==
    /\ pc \in {"generated", "mapped"}
    /\ out' = Render(maze)
    /\ pc' = IF Panics(Render(maze)) THEN "panic" ELSE "printed"
    /\ UNCHANGED <<maze, sets, wall_list, mapped, warned, maze2, sets2, uf, linked, found>>

\* main() was given --output: File::create succeeds and the rows are written,
\* or it fails and main() reports the error
SaveToFile ==
    /\ pc \in {"generated", "mapped"}
    /\ \E created \in BOOLEAN :
          IF created
          THEN /\ out' = Render(maze)
               /\ pc' = IF Panics(Render(maze)) THEN "panic" ELSE "saved"
          ELSE /\ out' = out
               /\ pc' = "save_failed"
    /\ UNCHANGED <<maze, sets, wall_list, mapped, warned, maze2, sets2, uf, linked, found>>

Next == GenerateBegin \/ GenerateStep \/ GenerateEnd \/ AddMap \/ PrintMaze \/ SaveToFile

Spec == Init /\ [][Next]_vars

\* Maze::new followed by generate(), without what main() does afterwards
NextGenerate == GenerateBegin \/ GenerateStep \/ GenerateEnd

SpecGenerate == Init /\ [][NextGenerate]_vars

\* generate() is straight-line sequential code: once main() has built the
\* Maze, generate() is called and each of its steps is taken while it can be.
InitFair == Init /\ maze.width * maze.height <= MaxFairCells

SpecFair == InitFair /\ [][Next]_vars /\ WF_vars(GenerateBegin \/ GenerateStep \/ GenerateEnd)

----------------------------------------------------------------------------
(* Two runs of generate() on mazes of the same size, the two loops visiting   *)
(* the walls in the same order                                                *)

InitPair ==
    /\ \E d \in Dims : \E draw \in RngOutcomes(d[1], d[2]) : \E draw2 \in RngOutcomes(d[1], d[2]) :
          /\ maze = MazeNew(d[1], d[2], draw)
          /\ maze2 = MazeNew(d[1], d[2], draw2)
    /\ sets = NoValue
    /\ sets2 = NoValue
    /\ wall_list = {}
    /\ pc = "new"
    /\ mapped = FALSE
    /\ warned = FALSE
    /\ out = NoValue
    /\ uf = NoValue
    /\ linked = {}
    /\ found = NoValue

PairBegin ==
    /\ pc = "new"
    /\ sets' = UnionFindNew((maze.width + 2) * (maze.height + 2))
    /\ sets2' = UnionFindNew((maze2.width + 2) * (maze2.height + 2))
    /\ wall_list' = maze.walls
    /\ pc' = "loop"
    /\ UNCHANGED <<maze, maze2, mapped, warned, out, uf, linked, found>>

PairStep ==
    /\ pc = "loop"
    /\ \E wall \in wall_list :
          LET r  == GenerateIter(maze, sets, wall)
              r2 == GenerateIter(maze2, sets2, wall)
          IN  /\ maze' = r.maze
              /\ sets' = r.sets
              /\ maze2' = r2.maze
              /\ sets2' = r2.sets
              /\ wall_list' = wall_list \ {wall}
    /\ UNCHANGED <<pc, mapped, warned, out, uf, linked, found>>

PairEnd ==
    /\ pc = "loop"
    /\ wall_list = {}
    /\ sets' = NoValue
    /\ sets2' = NoValue
    /\ pc' = "generated"
    /\ UNCHANGED <<maze, maze2, wall_list, mapped, warned, out, uf, linked, found>>

NextPair == PairBegin \/ PairStep \/ PairEnd

SpecPair == InitPair /\ [][NextPair]_vars

----------------------------------------------------------------------------
(* A UnionFind on its own, under arbitrary union() and find() calls *)

InitUF ==
    /\ \E size \in 1..MaxSize : uf = UnionFindNew(size)
    /\ linked = {}
    /\ found = NoValue
    /\ maze = NoValue
    /\ maze2 = NoValue
    /\ sets = NoValue
    /\ sets2 = NoValue
    /\ wall_list = {}
    /\ pc = "uf"
    /\ mapped = FALSE
    /\ warned = FALSE
    /\ out = NoValue

UFUnion ==
    /\ \E a \in DOMAIN uf : \E b \in DOMAIN uf :
          LET call == IF a = b THEN {} ELSE IF a < b THEN {<<a, b>>} ELSE {<<b, a>>}
          IN  /\ Cardinality(linked \cup call) <= MaxUnions
              /\ uf' = Union(uf, a, b)
              /\ linked' = linked \cup call
    /\ UNCHANGED <<found, maze, maze2, sets, sets2, wall_list, pc, mapped, warned, out>>

\* find() takes &mut self but writes nothing
UFFind ==
    /\ \E node \in DOMAIN uf :
          /\ Find(uf, node) \in DOMAIN uf
          /\ found' = <<node>>
    /\ UNCHANGED <<uf, linked, maze, maze2, sets, sets2, wall_list, pc, mapped, warned, out>>

NextUF == UFUnion \/ UFFind

SpecUF == InitUF /\ [][NextUF]_vars

----------------------------------------------------------------------------
(* Graph notions used by the properties *)

\* the cells one open wall away from a cell of "cells", walls taken in both directions
Neighbours(edges, cells) ==
    {e[2] : e \in {f \in edges : f[1] \in cells}} \cup {e[1] : e \in {f \in edges : f[2] \in cells}}

RECURSIVE Reach(_, _)
Reach(edges, cells) ==
    LET more == cells \cup Neighbours(edges, cells)
    IN  IF more = cells THEN cells ELSE Reach(edges, more)

Joined(edges, c1, c2) == c2 \in Reach(edges, {c1})

IsInterior(self, c) == 1 <= c[1] /\ c[1] <= self.width /\ 1 <= c[2] /\ c[2] <= self.height

InteriorWalls(self) == {e \in self.open_walls : IsInterior(self, e[1]) /\ IsInterior(self, e[2])}

Generated == pc \notin {"new", "loop"}

----------------------------------------------------------------------------
(* Properties of generate() *)

\* C1: for width >= 1 and height >= 1, once generate() has returned the
\* open-wall set holds exactly width * height - 1 walls.
C1_OpenWallCount ==
    (Generated /\ maze.width >= 1 /\ maze.height >= 1)
        => Cardinality(maze.open_walls) = maze.width * maze.height - 1

C1_Witness ==
    /\ pc = "generated"
    /\ maze.width = 2 /\ maze.height = 2
    /\ Cardinality(maze.open_walls) = 3

\* C2: for width >= 1 and height >= 1, once generate() has returned every two
\* interior cells are joined by a path of open walls through interior cells.
C2_Connected ==
    (Generated /\ maze.width >= 1 /\ maze.height >= 1)
        => \A c1 \in Interior(maze.width, maze.height) :
              Reach(InteriorWalls(maze), {c1}) = Interior(maze.width, maze.height)

C2_Witness ==
    /\ pc = "generated"
    /\ maze.width = 2 /\ maze.height = 2
    /\ Joined(InteriorWalls(maze), <<1, 1>>, <<2, 2>>)
    /\ <<<<1, 1>>, <<2, 1>>>> \notin maze.open_walls

\* C3: once generate() has returned the open walls have no cycle: taking any
\* one open wall away leaves its two cells without a joining path.
C3_Acyclic ==
    Generated
        => \A wall \in maze.open_walls :
              ~Joined(maze.open_walls \ {wall}, wall[1], wall[2])

C3_Witness ==
    /\ pc = "generated"
    /\ maze.width = 2 /\ maze.height = 2
    /\ maze.open_walls # {}
    /\ \E wall \in maze.walls \ maze.open_walls :
          ~IsOuterWall(maze, wall) /\ Joined(maze.open_walls, wall[1], wall[2])

\* C4: in every state during and after generate(), both cells of every open
\* wall are interior cells: none lies on the border.
C4_NoBorderOpen ==
    \A wall \in maze.open_walls :
        /\ ~(wall[1][1] = 0 \/ wall[1][2] = 0
               \/ wall[2][1] = maze.width + 1 \/ wall[2][2] = maze.height + 1)
        /\ IsInterior(maze, wall[1])
        /\ IsInterior(maze, wall[2])

\* the loop has visited a wall into the far border and opened some wall
C4_Witness ==
    /\ pc = "loop"
    /\ maze.open_walls # {}
    /\ \E wall \in maze.walls \ wall_list : wall[2][1] = maze.width + 1
    /\ \E wall \in maze.walls \ wall_list : wall[2][2] = maze.height + 1


\* C5: two runs of generate() on mazes of the same width and height whose
\* loops visit the walls in the same order end with the same open-wall set,
\* whatever the stickiness weights of the two mazes.
C5_SameOrderSameMaze ==
    pc = "generated" => maze.open_walls = maze2.open_walls

C5_Witness ==
    /\ pc = "generated"
    /\ maze.width = 2 /\ maze.height = 2
    /\ \A c \in Interior(2, 2) : maze.stickiness[c[2]][c[1]] # maze2.stickiness[c[2]][c[1]]
    /\ maze2.stickiness[2][2] = MaxWeight
    /\ Cardinality(maze2.open_walls) = 3

----------------------------------------------------------------------------
(* Properties of UnionFind *)

SameSet(parent, x, y) == Find(parent, x) = Find(parent, y)

\* the nodes with the representative of x
SetOf(parent, x) == {y \in DOMAIN parent : SameSet(parent, x, y)}

C6_FindIffLinked ==
    \A x \in DOMAIN uf : SetOf(uf, x) = Reach(linked, {x})

\* every node still has the representative of its former representative:
\* two nodes that shared one before the step share one after it
C6_NeverBroken ==
    \A x \in DOMAIN uf : SameSet(uf', x, Find(uf, x))

\* C6: on a UnionFind made by new(size), under any union() and find() calls,
\* find(x) = find(y) exactly when x and y are equal or joined, directly or
\* through other nodes, by the union() calls made so far; and no step ever
\* separates two nodes that had the same representative.
C6_UnionFind == [](C6_FindIffLinked) /\ [][C6_NeverBroken]_vars

\* find() was called on a node two parent pointers away from its root, while
\* some node is still alone
C6_Witness ==
    /\ pc = "uf"
    /\ Len(found) = 1
    /\ uf[found[1]] # found[1]
    /\ uf[uf[found[1]]] # uf[found[1]]
    /\ Cardinality(linked) = 2
    /\ \E x \in DOMAIN uf : \A y \in DOMAIN uf : y # x => ~SameSet(uf, x, y)

----------------------------------------------------------------------------
(* Properties of add_map() and of the rendering *)

Grid(self) == (0..(self.width + 1)) \X (0..(self.height + 1))

\* the cells that carry a marker
Marked(self, marker) == {c \in Grid(self) : self.stickiness[c[2]][c[1]] = marker}

\* C7: on a maze with at least two interior cells, after add_map() exactly one
\* cell carries the Start marker, exactly one other cell carries the Goal
\* marker, and both are interior cells.
C7_StartAndGoal ==
    (mapped /\ maze.width * maze.height >= 2)
        => \E s \in Interior(maze.width, maze.height) :
           \E g \in Interior(maze.width, maze.height) :
              /\ s # g
              /\ Marked(maze, StartMarker) = {s}
              /\ Marked(maze, GoalMarker) = {g}

C7_Witness ==
    /\ pc = "mapped"
    /\ maze.width = 2 /\ maze.height = 2
    /\ Marked(maze, StartMarker) = {<<2, 1>>}
    /\ Marked(maze, GoalMarker) = {<<1, 2>>}

\* C8: add_map() writes its warning only when fewer than two interior cells
\* exist; when it has placed both markers it writes none.
C8_WarnOnlyWhenShort ==
    mapped =>
        /\ warned => maze.width * maze.height < 2
        /\ (Marked(maze, StartMarker) # {} /\ Marked(maze, GoalMarker) # {}) => ~warned

\* C9: on a maze of width 1 and height 1, add_map() puts the Start marker on
\* the one interior cell, places no Goal marker, writes the warning and
\* returns; and add_map() can always be run on a generated 1 x 1 maze.
C9_SingleCell ==
    (maze.width = 1 /\ maze.height = 1)
        => /\ mapped => /\ Marked(maze, StartMarker) = {<<1, 1>>}
                         /\ Marked(maze, GoalMarker) = {}
                         /\ warned
                         /\ pc # "panic"
           /\ pc = "generated" => ENABLED AddMap

C9_Witness ==
    /\ pc = "mapped"
    /\ maze.width = 1 /\ maze.height = 1
    /\ maze.stickiness[1][1] = StartMarker
    /\ warned

\* the rows were written
Rendered == pc \in {"printed", "saved"}

\* C10: when a maze with at least two interior cells has been generated,
\* annotated and rendered, the rows show the Start character at the position
\* of the Start cell and the Goal character at the position of the Goal cell.
C10_MarkersRendered ==
    (Rendered /\ mapped /\ maze.width * maze.height >= 2)
        => /\ \A c \in Marked(maze, StartMarker) : out[c[2] + 1][c[1] + 1] = "S"
           /\ \A c \in Marked(maze, GoalMarker) : out[c[2] + 1][c[1] + 1] = "G"

\* the character the rows show for the cell c
Shown(c) == out[c[2] + 1][c[1] + 1]

\* the cell is an end of some open wall
OnOpenWall(self, c) == \E wall \in self.open_walls : wall[1] = c \/ wall[2] = c

Unmarked(self, c) == self.stickiness[c[2]][c[1]] \notin {StartMarker, GoalMarker}

Digits == {"1", "2", "3", "4", "5", "6", "7", "8", "9"}

\* C11: in the rendered rows an interior cell shows the wall character only
\* when no open wall leaves it to the east or south and none reaches it from
\* the west or north; every other unmarked interior cell (an end of at least
\* one open wall) shows the decimal digit of its stickiness weight.
C11_WallOnlyWhenIsolated ==
    Rendered
        => \A c \in Interior(maze.width, maze.height) :
              /\ Shown(c) = WallChar => ~OnOpenWall(maze, c)
              /\ (Unmarked(maze, c) /\ OnOpenWall(maze, c))
                    => (Shown(c) \in Digits /\ Shown(c) = FromDigit(maze.stickiness[c[2]][c[1]], 10))

\* C12: a generated maze rendered without map annotation gives height + 2
\* rows of width + 2 characters, each the wall character or a digit 1-9 (no
\* digit conversion fails), with the wall character on every border position.
C12_GridShape ==
    /\ ~mapped => pc # "panic"
    /\ (Rendered /\ ~mapped)
          => /\ Len(out) = maze.height + 2
             /\ \A r \in 1..Len(out) :
                   /\ Len(out[r]) = maze.width + 2
                   /\ \A c \in 1..Len(out[r]) : out[r][c] \in Digits \cup {WallChar}
             /\ \A c \in Grid(maze) \ Interior(maze.width, maze.height) :
                   c[2] + 1 \in DOMAIN out /\ c[1] + 1 \in DOMAIN out[c[2] + 1] /\ Shown(c) = WallChar

C12_Witness ==
    /\ pc = "printed"
    /\ ~mapped
    /\ maze.width = 2 /\ maze.height = 2
    /\ Shown(<<1, 1>>) = "5"
    /\ Shown(<<2, 2>>) = WallChar
    /\ Len(out) = 4

----------------------------------------------------------------------------
(* Degenerate mazes *)

\* C13: when width or height is 0, Maze::new gives a grid of border cells
\* only and no wall, generate() can run and returns with no open wall,
\* add_map() can run and places no marker, and nothing panics.
C13_EmptyMaze ==
    (maze.width = 0 \/ maze.height = 0)
        => /\ maze.walls = {}
           /\ DOMAIN maze.stickiness = 0..(maze.height + 1)
           /\ \A c \in Grid(maze) : c[1] \in DOMAIN maze.stickiness[c[2]] /\ maze.stickiness[c[2]][c[1]] = 0
           /\ maze.open_walls = {}
           /\ pc # "panic"
           /\ pc = "new" => ENABLED GenerateBegin
           /\ pc = "loop" => (wall_list = {} /\ ENABLED GenerateEnd)
           /\ pc = "generated" => ENABLED AddMap

\* add_map() has run on a maze of width 0 and height 2
C13_Witness ==
    /\ pc = "mapped"
    /\ mapped
    /\ maze.width = 0 /\ maze.height = 2
    /\ Marked(maze, StartMarker) = {} /\ Marked(maze, GoalMarker) = {}

----------------------------------------------------------------------------
(* The loop of generate(), iteration by iteration *)

\* the representative of every interior cell, by following the parent pointers
Roots(self, parent) == [c \in Interior(self.width, self.height) |-> Find(parent, CellToId(self, c))]

\* the interior cells with the representative of the cell c
CellsWith(roots, c) == {d \in DOMAIN roots : roots[d] = roots[c]}

\* the ids of the border cells
BorderIds(self) == {CellToId(self, c) : c \in Grid(self) \ Interior(self.width, self.height)}

\* C14: between any two iterations of the loop of generate(), two cells have
\* the same union-find representative exactly when they are equal or joined
\* by a chain of open walls; every border cell is alone in its set.
C14_SetsAreComponents ==
    pc = "loop"
        => LET roots  == Roots(maze, sets)
               border == BorderIds(maze)
           IN  \* a border cell is its own parent and nobody else's, so it is
               \* alone in its set; and no open wall ends on it
               /\ \A i \in DOMAIN sets : (i \in border \/ sets[i] \in border) => sets[i] = i
               /\ \A wall \in maze.open_walls : IsInterior(maze, wall[1]) /\ IsInterior(maze, wall[2])
               \* the set of an interior cell is its component under the open
               \* walls: said of the cell that is the representative, it holds
               \* of every cell of the set
               /\ \A c \in DOMAIN roots :
                     IF roots[c] = CellToId(maze, c)
                     THEN CellsWith(roots, c) = Reach(maze.open_walls, {c})
                     ELSE roots[c] \in {CellToId(maze, d) : d \in DOMAIN roots}

\* part of the walls visited: two cells joined through a third, a far-border
\* wall already skipped, one interior cell still alone
C14_Witness ==
    /\ pc = "loop"
    /\ maze.width = 2 /\ maze.height = 2
    /\ wall_list # {}
    /\ Find(sets, CellToId(maze, <<1, 1>>)) = Find(sets, CellToId(maze, <<2, 2>>))
    /\ Reach(maze.open_walls, {<<1, 2>>}) = {<<1, 2>>}
    /\ <<<<2, 2>>, <<3, 2>>>> \notin wall_list

\* the east wall and the south wall of a cell
EastWall(c) == <<c, <<c[1] + 1, c[2]>>>>
SouthWall(c) == <<c, <<c[1], c[2] + 1>>>>

\* the wall leads into the far border
IntoFarBorder(self, wall) == wall[2][1] = self.width + 1 \/ wall[2][2] = self.height + 1

\* the walls the loop of generate() has visited
Visited == IF pc = "new" THEN {} ELSE maze.walls \ wall_list

\* C15: the wall set of Maze::new is, for every interior cell, its east wall
\* and its south wall and nothing else (2 * width * height walls, those into
\* the far border among them, none with an end at x = 0 or y = 0), with no
\* open wall; generate() never changes it, skips exactly the walls into the
\* far border and decides every other wall it visits (opened, or its cells
\* already in one set).
C15_WallSet ==
    \* 2 * width * height walls, each the east or the south wall of an
    \* interior cell: all of those walls, and nothing else
    /\ Cardinality(maze.walls) = 2 * maze.width * maze.height
    /\ \A wall \in maze.walls :
          /\ IsInterior(maze, wall[1])
          /\ wall = EastWall(wall[1]) \/ wall = SouthWall(wall[1])
          /\ wall[2][1] # 0 /\ wall[2][2] # 0
          /\ IsOuterWall(maze, wall) <=> IntoFarBorder(maze, wall)
    /\ pc = "new" => maze.open_walls = {}
    /\ \A wall \in Visited :
          IF IntoFarBorder(maze, wall)
          THEN wall \notin maze.open_walls
          ELSE wall \in maze.open_walls
                 \/ pc # "loop"
                 \/ Find(sets, CellToId(maze, wall[1])) = Find(sets, CellToId(maze, wall[2]))

\* the loop has skipped a wall into the far border and turned down an
\* interior wall
C15_Witness ==
    /\ pc = "loop"
    /\ maze.width = 2 /\ maze.height = 2
    /\ Cardinality(maze.walls) = 8
    /\ wall_list # {}
    /\ \E wall \in Visited : IntoFarBorder(maze, wall)
    /\ \E wall \in Visited : ~IntoFarBorder(maze, wall) /\ wall \notin maze.open_walls

\* the node reached from "node" by following parent pointers until a
\* self-parented node, at most k times
RECURSIVE Up(_, _, _)
Up(parent, node, k) ==
    IF parent[node] = node \/ k = 0 THEN node ELSE Up(parent, parent[node], k - 1)

\* following the parent pointers from any node reaches a self-parented root
\* within as many steps as there are other nodes, hence without a revisit
IsForest(parent) ==
    \A node \in DOMAIN parent :
        LET top == Up(parent, node, Cardinality(DOMAIN parent) - 1)
        IN  parent[top] = top

\* an iteration of the loop visits one wall; the loop is left only when no
\* wall remains
C17_LoopStep ==
    /\ (pc = "loop" /\ pc' = "loop") => Cardinality(wall_list') = Cardinality(wall_list) - 1
    /\ (pc = "loop" /\ pc' # "loop") => (wall_list = {} /\ pc' = "generated")

\* C17: generate() always terminates: the parent vector is a forest after
\* every union, so each find() loop ends; each iteration of the loop visits
\* one wall of the finite list, the loop ends only when all are visited, and
\* it does end.
C17_Terminates ==
    /\ [](pc = "loop" => IsForest(sets))
    /\ [][C17_LoopStep]_vars
    /\ [](Generated => Visited = maze.walls)
    /\ <>Generated

\* generate() has returned on a 2 x 2 maze after visiting its eight walls
C17_Witness ==
    /\ pc = "generated"
    /\ maze.width = 2 /\ maze.height = 2
    /\ Visited = maze.walls
    /\ Cardinality(Visited) = 8
    /\ Cardinality(maze.open_walls) = 3

\* the number of different representatives among the interior cells
SetCount(self, parent) == Cardinality({Find(parent, CellToId(self, c)) : c \in Interior(self.width, self.height)})

C18_Counts ==
    pc = "loop"
        => /\ maze.open_walls \subseteq maze.walls
           /\ Cardinality(maze.open_walls) + SetCount(maze, sets) = maze.width * maze.height

\* what one step does to the open walls and to the parent vector
C18_Step ==
    /\ maze.open_walls \subseteq maze'.open_walls
    /\ (pc = "loop" /\ pc' = "loop")
          => IF maze'.open_walls = maze.open_walls
             THEN sets' = sets
             ELSE \E wall \in maze'.open_walls \ maze.open_walls :
                     LET root1 == Find(sets, CellToId(maze, wall[1]))
                         root2 == Find(sets, CellToId(maze, wall[2]))
                     IN  /\ maze'.open_walls = maze.open_walls \cup {wall}
                         /\ wall \in maze.walls
                         /\ root1 # root2
                         /\ sets' = [sets EXCEPT ![root1] = root2]

\* C18: between any two iterations of the loop of generate() the open walls
\* are walls of the wall set and their number plus the number of different
\* sets among the interior cells is width * height; the open-wall set only
\* grows; a step that opens a wall opens one, whose cells had different
\* representatives, and writes one parent entry (of the one root, the other
\* root); a step that opens none leaves the parent vector alone.
C18_OpenWallsAndSets == [](C18_Counts) /\ [][C18_Step]_vars

\* three walls of a 2 x 2 maze are open, the fourth was visited and left
\* closed, and walls remain
C18_Witness ==
    /\ pc = "loop"
    /\ maze.width = 2 /\ maze.height = 2
    /\ Cardinality(maze.open_walls) = 3
    /\ SetCount(maze, sets) = 1
    /\ \A c \in Interior(2, 2) : c[1] = 2 \/ EastWall(c) \in Visited
    /\ \A c \in Interior(2, 2) : c[2] = 2 \/ SouthWall(c) \in Visited
    /\ wall_list # {}

----------------------------------------------------------------------------
(* Path compression *)

\* the nodes find(node) visits: node, its parent, and so on up to the root
RECURSIVE PathOf(_, _)
PathOf(parent, node) ==
    IF parent[node] = node THEN {node} ELSE {node} \cup PathOf(parent, parent[node])

\* a find() call has just been made (union() leaves "found" alone)
FindCalled == found' # found

\* C16: find(node) flattens the path it walks: once it has returned the root
\* r, node and every node visited on the way to r have r as their parent.
C16_FindCompresses ==
    [][FindCalled => \A n \in PathOf(uf, found'[1]) : uf'[n] = Find(uf, found'[1])]_vars

====
